---- MODULE Spec2Model ----
(***************************************************************************)
(* Model of src/sap-ai-provider.ts: createSAPAIProvider (asynchronous,     *)
(* with the OAuth exchange as its one suspension point),                    *)
(* createSAPAIProviderSync, the default handle sapai, the model factory    *)
(* createModel of each of them and the header function of a model handle.  *)
(*                                                                         *)
(* Strings are sequences of atoms (a URL is <<"https://h", "/">>), an      *)
(* optional value (T | undefined) is the set None or Some(v).              *)
(***************************************************************************)
EXTENDS Integers, Sequences, FiniteSets, TLC

VARIABLES env, pc, kind, args, options, closure, err, posts, resp, last

vars == <<env, pc, kind, args, options, closure, err, posts, resp, last>>

\* ------------------------------------------------------------------------
\* Values

None == {}

Some(v) == {v}

Val(o) == CHOOSE v \in o : TRUE

\* if (x) on a string | undefined: undefined and "" are falsy.
Truthy(o) == o # None /\ Val(o) # <<>>

\* `${x}` in a template literal.
Str(o) == IF o = None THEN <<"undefined">> ELSE Val(o)

\* { ...a, ...b } on two mappings: b's keys win.
Spread(a, b) ==
  [k \in (DOMAIN a) \cup (DOMAIN b) |-> IF k \in DOMAIN b THEN b[k] ELSE a[k]]

\* ...x where x may be undefined: spreading undefined adds nothing.
OrEmpty(o) == IF o = None THEN <<>> ELSE Val(o)

K1 ==
  [AI_API_URL |-> <<"https://api1">>, clientid |-> <<"id1">>,
   clientsecret |-> <<"secret1">>, url |-> <<"https://auth1">>]

K2 ==
  [AI_API_URL |-> <<"https://api2">>, clientid |-> <<"id2">>,
   clientsecret |-> <<"secret2">>, url |-> <<"https://auth2">>]

NoKey ==
  [AI_API_URL |-> <<>>, clientid |-> <<>>, clientsecret |-> <<>>, url |-> <<>>]

\* The serviceKey option: undefined, a string, or a service key object.
SKUndefined == [type |-> "undefined", str |-> <<>>, obj |-> NoKey]

SKString(s) == [type |-> "string", str |-> s, obj |-> NoKey]

SKObject(k) == [type |-> "object", str |-> <<>>, obj |-> k]

\* The JSON text of a service key.
JSONStringify(k) ==
  <<"{">> \o k.AI_API_URL \o <<",">> \o k.clientid \o <<",">>
    \o k.clientsecret \o <<",">> \o k.url \o <<"}">>

MalformedJSON == <<"{", "https://api1", ",">>

\* JSON.parse: throws a SyntaxError on the empty string and on malformed text,
\* yields null on "null" and the object on the text of a service key.
JSONParse(s) ==
  IF s = <<"null">>
  THEN [threw |-> FALSE, value |-> None]
  ELSE IF /\ Len(s) = 9
          /\ s[1] = "{" /\ s[9] = "}"
          /\ s[3] = "," /\ s[5] = "," /\ s[7] = ","
          /\ \A i \in {2, 4, 6, 8} : s[i] \notin {"{", "}", ","}
       THEN [threw |-> FALSE,
             value |-> Some([AI_API_URL |-> <<s[2]>>, clientid |-> <<s[4]>>,
                             clientsecret |-> <<s[6]>>, url |-> <<s[8]>>])]
       ELSE [threw |-> TRUE, value |-> None]

\* url?.replace(/\/$/, ''): one trailing slash is removed, undefined stays.
withoutTrailingSlash(o) ==
  IF o = None
  THEN None
  ELSE LET s == Val(o)
       IN  IF Len(s) > 0 /\ s[Len(s)] = "/"
           THEN Some(SubSeq(s, 1, Len(s) - 1))
           ELSE Some(s)

DefaultBaseURL == <<"https://api.ai.prod.eu-central-1.aws.ml.hana.ondemand.com/v2">>

DefaultDeploymentId == <<"d65d81e7c077e583">>

DefaultResourceGroup == <<"default">>

\* ------------------------------------------------------------------------
\* Errors, by message

NoError == <<>>

ErrInvalidJSON == <<"Invalid service key JSON format">>

ErrNewKeyword ==
  <<"The SAP AI provider function cannot be called with the new keyword.">>

ErrEnvRequired ==
  <<"SAP_AI_TOKEN environment variable is required for default instance. ",
    "Either set SAP_AI_TOKEN or use createSAPAIProvider({ serviceKey: \"...\" }) instead.">>

\* loadApiKey throws when the environment variable is missing.
ErrLoadApiKey == <<"SAP AI Core API key is missing.">>

ErrOAuth(r) ==
  <<"Failed to get OAuth access token: ", ToString(r.status), " ",
    r.statusText, "\n", r.body>>

\* ------------------------------------------------------------------------
\* Settings, options and their bounded input sets

TokA == <<"tokA">>

TokB == <<"tokB">>

\* SAPAISettings: the top-level keys other than modelParams, and modelParams.
S0 == [top |-> <<>>, mp |-> None]

S1 == [top |-> <<>>, mp |-> Some([temperature |-> "0.7"])]

S2 == [top |-> [modelVersion |-> "v2"], mp |-> Some([maxTokens |-> "100"])]

S3 ==
  [top |-> [modelVersion |-> "v1", safePrompt |-> "on"],
   mp |-> Some([temperature |-> "0.2", maxTokens |-> "50"])]

\* The per-call settings argument; an omitted argument defaults to {}.
SettingsSet == {S0, S1, S2}

DefaultSettingsSet == {None, Some(S1), Some(S3)}

CustomHeaders ==
  {None, Some("X-Custom" :> <<"1">>),
   Some([Authorization |-> <<"Custom abc">>] @@ ("X-Custom" :> <<"2">>))}

Options(sk, tok, base, cp, dep, rg, hdrs, defs) ==
  [serviceKey |-> sk, token |-> tok, baseURL |-> base, completionPath |-> cp,
   deploymentId |-> dep, resourceGroup |-> rg, headers |-> hdrs,
   defaultSettings |-> defs]

NoOptions == Options(SKUndefined, None, None, None, None, None, None, None)

ServiceKeyValues ==
  {SKUndefined, SKString(<<>>), SKString(MalformedJSON), SKString(<<"null">>),
   SKString(JSONStringify(K1)), SKObject(K1)}

TokenValues == {None, Some(<<>>), Some(TokA)}

BaseURLValues ==
  {None, Some(<<>>), Some(<<"https://proxy">>), Some(<<"https://proxy", "/">>)}

CompletionPathValues == {None, Some(<<"/v2/completion">>)}

DeploymentIdValues == {None, Some(<<"dep1">>)}

ResourceGroupValues == {None, Some(<<"production">>)}

\* Every way of authenticating, with the endpoint options left out.
AuthOptions ==
  {Options(sk, tok, None, None, None, None, None, None) :
     sk \in ServiceKeyValues, tok \in TokenValues}

\* Every combination of the endpoint options, with and without a service key
\* and with and without a token.
UrlOptions ==
  {Options(sk, tok, base, cp, dep, None, None, None) :
     sk \in {SKUndefined, SKObject(K1)}, tok \in {None, Some(TokA)},
     base \in BaseURLValues, cp \in CompletionPathValues,
     dep \in DeploymentIdValues}

\* Custom headers, resource group and default settings, with a token.
HeaderOptions ==
  {Options(SKUndefined, Some(TokA), None, None, None, rg, hdrs, defs) :
     rg \in ResourceGroupValues, hdrs \in CustomHeaders,
     defs \in DefaultSettingsSet}

OptionsSet == AuthOptions \cup UrlOptions \cup HeaderOptions

\* createSAPAIProviderSync takes no serviceKey and requires a token string.
SyncOptionsSet ==
  {o \in OptionsSet : o.serviceKey = SKUndefined /\ o.token # None}

\* Concurrent creations: service keys only, so that each call suspends.
ConcOptionsSet ==
  {Options(sk, None, None, None, None, None, None, None) :
     sk \in {SKObject(K1), SKObject(K2), SKString(JSONStringify(K2))}}

EnvValues == {None, Some(<<>>), Some(TokA), Some(TokB)}

\* At most this many creation calls are made in a behaviour.
MaxCalls == 2

CallIds == 1..MaxCalls

\* The owner of a model handle made by the default handle sapai.
Sapai == 0

\* ------------------------------------------------------------------------
\* The OAuth token endpoint (the transport behind fetchFn)

\* btoa(clientid + ":" + clientsecret)
Base64(s) == <<"base64(">> \o s \o <<")">>

\* The POST getOAuthToken sends.
OAuthRequest(k) ==
  [method |-> "POST", url |-> k.url \o <<"/oauth/token">>,
   contentType |-> "application/x-www-form-urlencoded",
   authorization |-> <<"Basic ">> \o Base64(k.clientid \o <<":">> \o k.clientsecret),
   body |-> "grant_type=client_credentials"]

\* The token the authorization server issues to a client.
IssuedToken(k) == <<"token-of-">> \o k.clientid

\* What the endpoint may answer to the request of service key k.
Responses(k) ==
  {[status |-> 200, statusText |-> "OK", body |-> "", access_token |-> IssuedToken(k)],
   [status |-> 401, statusText |-> "Unauthorized", body |-> "bad credentials",
    access_token |-> <<>>],
   [status |-> 500, statusText |-> "Internal Server Error", body |-> "oops",
    access_token |-> <<>>]}

NoResponse == [status |-> 0, statusText |-> "", body |-> "", access_token |-> <<>>]

\* response.ok taken to mean "no server error".
ResponseOkLoose(r) == r.status < 500

\* response.ok
ResponseOk(r) == r.status >= 200 /\ r.status <= 299

\* tokenData.access_token of a successful response.
AccessToken(r) == r.access_token

\* ------------------------------------------------------------------------
\* createSAPAIProvider, step by step

\* The parse with its SyntaxError swallowed instead of rethrown.
ParseServiceKeySwallow(o) ==
  IF o.serviceKey.type = "string" /\ o.serviceKey.str # <<>>
  THEN [threw |-> FALSE, value |-> JSONParse(o.serviceKey.str).value]
  ELSE IF o.serviceKey.type = "object"
       THEN [threw |-> FALSE, value |-> Some(o.serviceKey.obj)]
       ELSE [threw |-> FALSE, value |-> None]

\* The service key of the options, parsed when it is a non-empty string.
ParseServiceKey(o) ==
  IF o.serviceKey.type = "string" /\ o.serviceKey.str # <<>>
  THEN JSONParse(o.serviceKey.str)
  ELSE IF o.serviceKey.type = "object"
       THEN [threw |-> FALSE, value |-> Some(o.serviceKey.obj)]
       ELSE [threw |-> FALSE, value |-> None]

\* The service key's URL taken before the explicit baseURL.
ResolveBaseURLWrong(o, parsed) ==
  IF parsed # None
  THEN Val(parsed).AI_API_URL \o <<"/v2">>
  ELSE IF withoutTrailingSlash(o.baseURL) # None
       THEN Val(withoutTrailingSlash(o.baseURL))
       ELSE DefaultBaseURL

ResolveBaseURL(o, parsed) ==
  IF parsed # None
  THEN IF withoutTrailingSlash(o.baseURL) # None
       THEN Val(withoutTrailingSlash(o.baseURL))
       ELSE Val(parsed).AI_API_URL \o <<"/v2">>
  ELSE IF withoutTrailingSlash(o.baseURL) # None
       THEN Val(withoutTrailingSlash(o.baseURL))
       ELSE DefaultBaseURL

\* The service key tried before the explicit token.
AuthModeKeyFirst(o, parsed) ==
  IF parsed # None THEN "oauth"
  ELSE IF Truthy(o.token) THEN "token"
  ELSE "env"

\* Which branch of "Determine authentication" the call takes.
AuthMode(o, parsed) ==
  IF Truthy(o.token) THEN "token"
  ELSE IF parsed # None THEN "oauth"
  ELSE "env"

NoClosure ==
  [baseURL |-> <<>>, authToken |-> <<>>, deploymentId |-> <<>>,
   resourceGroup |-> <<>>]

\* The variables createModel closes over, once the token is known.
Closure(baseURL, authToken, o) ==
  [baseURL |-> baseURL, authToken |-> authToken,
   deploymentId |-> IF o.deploymentId # None THEN Val(o.deploymentId)
                    ELSE DefaultDeploymentId,
   resourceGroup |-> IF o.resourceGroup # None THEN Val(o.resourceGroup)
                     ELSE DefaultResourceGroup]

\* A shallow merge: the per-call modelParams replace the default ones.
MergeSettingsShallow(defs, s) ==
  [top |-> Spread(IF defs = None THEN <<>> ELSE Val(defs).top, s.top),
   mp |-> IF s.mp # None THEN s.mp
          ELSE IF defs = None THEN Some(<<>>) ELSE Some(OrEmpty(Val(defs).mp))]

\* mergedSettings of createModel.
MergeSettings(defs, s) ==
  [top |-> Spread(IF defs = None THEN <<>> ELSE Val(defs).top, s.top),
   mp |-> Some(Spread(IF defs = None THEN <<>> ELSE OrEmpty(Val(defs).mp),
                      OrEmpty(s.mp)))]

\* The baseURL handed to SAPAIChatLanguageModel.
CompletionURL(cl, o) ==
  IF o.completionPath # None
  THEN cl.baseURL \o Val(o.completionPath)
  ELSE cl.baseURL \o <<"/inference/deployments/">> \o cl.deploymentId
                  \o <<"/v2/completion">>

\* The options object a model handle's header function reads: the caller's,
\* or for the default handle the private { token } of its inner provider.
OptionsOf(m) ==
  IF m.owner = Sapai
  THEN [NoOptions EXCEPT !.token = Some(m.authToken)]
  ELSE options[m.owner]

\* options.token read at every header call, in createSAPAIProvider too.
HeaderTokenLive(m) == Str(OptionsOf(m).token)

\* The token a model handle's header function interpolates: the variable
\* authToken of createSAPAIProvider, options.token in createSAPAIProviderSync.
HeaderToken(m) ==
  IF m.kind = "async" THEN m.authToken ELSE Str(OptionsOf(m).token)

GeneratedHeaders(m) ==
  [Authorization |-> <<"Bearer ">> \o HeaderToken(m)]
    @@ ("Content-Type" :> <<"application/json">>)
    @@ ("ai-resource-group" :> m.resourceGroup)

\* The custom headers spread first, so that the generated ones win.
HeadersGeneratedWin(m) ==
  Spread(OrEmpty(OptionsOf(m).headers), GeneratedHeaders(m))

\* headers: () => ({ Authorization, "Content-Type", "ai-resource-group",
\* ...options.headers })
Headers(m) == Spread(GeneratedHeaders(m), OrEmpty(OptionsOf(m).headers))

\* new SAPAIChatLanguageModel(modelId, mergedSettings, { baseURL, headers })
NewModel(owner, via, k, cl, o, s) ==
  [owner |-> owner, via |-> via, kind |-> k,
   settings |-> MergeSettings(o.defaultSettings, s), given |-> s,
   baseURL |-> CompletionURL(cl, o), authToken |-> cl.authToken,
   resourceGroup |-> cl.resourceGroup]

NoModel ==
  [owner |-> -1, via |-> "none", kind |-> "none", settings |-> S0, given |-> S0,
   baseURL |-> <<>>, authToken |-> <<>>, resourceGroup |-> <<>>]

\* The most recent invocation of a provider handle: who was invoked and how,
\* what it threw, or the model handle it returned.
NoCall == [owner |-> -1, via |-> "none", threw |-> NoError, model |-> NoModel]

Threw(owner, via, error) ==
  [owner |-> owner, via |-> via, threw |-> error, model |-> NoModel]

Returned(owner, via, m) ==
  [owner |-> owner, via |-> via, threw |-> NoError, model |-> m]

\* ------------------------------------------------------------------------
\* Actions

\* process.env.SAP_AI_TOKEN is set, emptied or unset by the process.
SetEnv(v) ==
  /\ env # v
  /\ env' = v
  /\ UNCHANGED <<pc, kind, args, options, closure, err, posts, resp, last>>

\* The caller assigns options.token of the object it passed to a creation call.
MutateToken(c, v) ==
  /\ pc[c] # "idle"
  /\ options[c].token # v
  /\ options' = [options EXCEPT ![c].token = v]
  /\ UNCHANGED <<env, pc, kind, args, closure, err, posts, resp, last>>

\* The caller assigns options.completionPath of that object.
MutateCompletionPath(c, v) ==
  /\ pc[c] # "idle"
  /\ options[c].completionPath # v
  /\ options' = [options EXCEPT ![c].completionPath = v]
  /\ UNCHANGED <<env, pc, kind, args, closure, err, posts, resp, last>>

\* createSAPAIProvider(o), up to its return, its throw or its await.
Create(c, o) ==
  /\ pc[c] = "idle"
  /\ kind' = [kind EXCEPT ![c] = "async"]
  /\ args' = [args EXCEPT ![c] = o]
  /\ options' = [options EXCEPT ![c] = o]
  /\ LET p == ParseServiceKey(o)
     IN  IF p.threw
         THEN /\ pc' = [pc EXCEPT ![c] = "failed"]
              /\ err' = [err EXCEPT ![c] = ErrInvalidJSON]
              /\ UNCHANGED <<closure, posts>>
         ELSE LET baseURL == ResolveBaseURL(o, p.value)
                  mode == AuthMode(o, p.value)
              IN  CASE mode = "token" ->
                         /\ closure' = [closure EXCEPT
                                          ![c] = Closure(baseURL, Val(o.token), o)]
                         /\ pc' = [pc EXCEPT ![c] = "ready"]
                         /\ UNCHANGED <<err, posts>>
                    [] mode = "oauth" ->
                         /\ posts' = [posts EXCEPT
                                        ![c] = Append(@, OAuthRequest(Val(p.value)))]
                         /\ closure' = [closure EXCEPT ![c].baseURL = baseURL]
                         /\ pc' = [pc EXCEPT ![c] = "awaiting"]
                         /\ UNCHANGED err
                    [] mode = "env" ->
                         IF env = None
                         THEN /\ pc' = [pc EXCEPT ![c] = "failed"]
                              /\ err' = [err EXCEPT ![c] = ErrLoadApiKey]
                              /\ UNCHANGED <<closure, posts>>
                         ELSE /\ closure' = [closure EXCEPT
                                               ![c] = Closure(baseURL, Val(env), o)]
                              /\ pc' = [pc EXCEPT ![c] = "ready"]
                              /\ UNCHANGED <<err, posts>>
  /\ UNCHANGED <<env, resp, last>>

\* A token kept in a variable shared by all creation calls.
AuthTokenShared(c, r) ==
  IF \E d \in CallIds \ {c} : pc[d] = "ready"
  THEN closure[CHOOSE d \in CallIds \ {c} : pc[d] = "ready"].authToken
  ELSE AccessToken(r)

\* authToken = await getOAuthToken(...): the token of this call's own answer.
AuthTokenAfterAwait(c, r) == AccessToken(r)

\* The answer to the POST of call c arrives: getOAuthToken returns or throws
\* and createSAPAIProvider runs to its end.
OAuthRespond(c, r) ==
  /\ pc[c] = "awaiting"
  /\ r \in Responses(Val(ParseServiceKey(args[c]).value))
  /\ resp' = [resp EXCEPT ![c] = r]
  /\ IF ResponseOk(r)
     THEN /\ closure' = [closure EXCEPT
                           ![c] = Closure(closure[c].baseURL, AuthTokenAfterAwait(c, r),
                                          options[c])]
          /\ pc' = [pc EXCEPT ![c] = "ready"]
          /\ UNCHANGED err
     ELSE /\ pc' = [pc EXCEPT ![c] = "failed"]
          /\ err' = [err EXCEPT ![c] = ErrOAuth(r)]
          /\ UNCHANGED closure
  /\ UNCHANGED <<env, kind, args, options, posts, last>>

\* createSAPAIProviderSync(o)
CreateSync(c, o) ==
  /\ pc[c] = "idle"
  /\ kind' = [kind EXCEPT ![c] = "sync"]
  /\ args' = [args EXCEPT ![c] = o]
  /\ options' = [options EXCEPT ![c] = o]
  /\ closure' = [closure EXCEPT
                   ![c] = Closure(ResolveBaseURL(o, None), Str(o.token), o)]
  /\ pc' = [pc EXCEPT ![c] = "ready"]
  /\ UNCHANGED <<env, err, posts, resp, last>>

\* handle(modelId, s), handle.chat(modelId, s) or new handle(modelId, s) on the
\* handle of call c.
Invoke(c, via, s) ==
  /\ pc[c] = "ready"
  /\ last' = IF via = "new"
             THEN Threw(c, via, ErrNewKeyword)
             ELSE Returned(c, via,
                           NewModel(c, via, kind[c], closure[c], options[c], s))
  /\ UNCHANGED <<env, pc, kind, args, options, closure, err, posts, resp>>

\* The token check of the default handle's createModel.
\* The check token === undefined, which lets the empty string through.
DefaultTokenMissingLoose(e) == e = None

DefaultTokenMissing(e) == ~Truthy(e)

\* sapai(modelId, s), sapai.chat(modelId, s) or new sapai(modelId, s).
InvokeDefault(via, s) ==
  /\ last' = IF DefaultTokenMissing(env)
             THEN Threw(Sapai, via, ErrEnvRequired)
             ELSE LET o == [NoOptions EXCEPT !.token = env]
                      cl == Closure(ResolveBaseURL(o, None), Str(o.token), o)
                  IN  Returned(Sapai, via, NewModel(Sapai, via, "sync", cl, o, s))
  /\ UNCHANGED <<env, pc, kind, args, options, closure, err, posts, resp>>

\* ------------------------------------------------------------------------
\* Specifications

Init ==
  /\ env = None
  /\ pc = [c \in CallIds |-> "idle"]
  /\ kind = [c \in CallIds |-> "none"]
  /\ args = [c \in CallIds |-> NoOptions]
  /\ options = [c \in CallIds |-> NoOptions]
  /\ closure = [c \in CallIds |-> NoClosure]
  /\ err = [c \in CallIds |-> NoError]
  /\ posts = [c \in CallIds |-> <<>>]
  /\ resp = [c \in CallIds |-> NoResponse]
  /\ last = NoCall

Vias == {"call", "chat", "new"}

\* One provider handle and the default handle, with every option.
Next ==
  \/ \E v \in EnvValues : SetEnv(v)
  \/ \E o \in OptionsSet : Create(1, o)
  \/ \E o \in SyncOptionsSet : CreateSync(1, o)
  \/ \E r \in Responses(K1) : OAuthRespond(1, r)
  \/ \E v \in {None, Some(TokB)} : MutateToken(1, v)
  \/ \E v \in CompletionPathValues : MutateCompletionPath(1, v)
  \/ \E via \in Vias, s \in SettingsSet : Invoke(1, via, s)
  \/ \E via \in Vias, s \in SettingsSet : InvokeDefault(via, s)

Spec == Init /\ [][Next]_vars

\* Two creation calls in flight at once, each with a service key.
NextConc ==
  \/ \E c \in CallIds, o \in ConcOptionsSet : Create(c, o)
  \/ \E c \in CallIds, r \in Responses(K1) \cup Responses(K2) : OAuthRespond(c, r)
  \/ \E c \in CallIds, via \in {"call", "chat"} : Invoke(c, via, S0)

SpecConc == Init /\ [][NextConc]_vars

\* ------------------------------------------------------------------------
\* Vocabulary of the properties

\* The service key a caller supplied, read off the options as passed: the
\* object itself, or the key whose JSON text the string is.
GivenKey(o) ==
  IF o.serviceKey.type = "object"
  THEN Some(o.serviceKey.obj)
  ELSE IF o.serviceKey.type = "string"
       THEN {k \in {K1, K2} : JSONStringify(k) = o.serviceKey.str}
       ELSE None

\* The serviceKey option is a string that is not valid JSON.
NotJSON(o) ==
  /\ o.serviceKey.type = "string"
  /\ o.serviceKey.str # <<"null">>
  /\ \A k \in {K1, K2} : o.serviceKey.str # JSONStringify(k)

\* The most recent invocation returned a model handle of owner c.
ReturnedModelOf(c) == last.owner = c /\ last.threw = NoError

Bearer(tok) == <<"Bearer ">> \o tok

\* ------------------------------------------------------------------------
\* C1

\* C1, as stated: whenever a (non-empty) token is supplied to
\* createSAPAIProvider, whatever the serviceKey option is, creation succeeds,
\* no POST is made and every model handle sends Authorization = "Bearer " + token.
C1_TokenAlwaysWins ==
  \A c \in CallIds :
    (kind[c] = "async" /\ Truthy(args[c].token)) =>
      /\ pc[c] = "ready"
      /\ posts[c] = <<>>
      /\ ReturnedModelOf(c) =>
           Headers(last.model)["Authorization"] = Bearer(Val(args[c].token))

\* C1, amended: with a non-empty token and a serviceKey that is not a
\* non-empty malformed JSON string, creation succeeds without any POST, the
\* token captured is the supplied one, every model handle generates
\* Authorization = "Bearer " + token and sends it unless the custom headers
\* carry their own Authorization; with a non-empty malformed JSON string,
\* creation fails with the invalid-JSON error, still without any POST.
C1_TokenWinsOverParsedKey ==
  \A c \in CallIds :
    (kind[c] = "async" /\ Truthy(args[c].token)) =>
      /\ posts[c] = <<>>
      /\ (NotJSON(args[c]) /\ args[c].serviceKey.str # <<>>) =>
           pc[c] = "failed" /\ err[c] = ErrInvalidJSON
      /\ ~(NotJSON(args[c]) /\ args[c].serviceKey.str # <<>>) =>
           /\ pc[c] = "ready"
           /\ err[c] = NoError
           /\ closure[c].authToken = Val(args[c].token)
           /\ ReturnedModelOf(c) =>
                /\ GeneratedHeaders(last.model)["Authorization"]
                     = Bearer(Val(args[c].token))
                /\ "Authorization" \notin DOMAIN OrEmpty(options[c].headers) =>
                     Headers(last.model)["Authorization"]
                       = Bearer(Val(args[c].token))

\* A provider created with both a service key object and a token has produced
\* a model handle, and the caller has since changed options.token.
C1_Witness ==
  /\ kind[1] = "async"
  /\ args[1].serviceKey = SKObject(K1)
  /\ args[1].token = Some(TokA)
  /\ options[1].token = Some(TokB)
  /\ ReturnedModelOf(1)

\* ------------------------------------------------------------------------
\* C2

\* The completion URL createModel computes from the base URL and deployment id
\* fixed at creation and the completionPath the options object holds now.
URLFrom(cl, path) ==
  IF path # None
  THEN cl.baseURL \o Val(path)
  ELSE cl.baseURL \o <<"/inference/deployments/">> \o cl.deploymentId
                  \o <<"/v2/completion">>

C3_NewRejected ==
  /\ last.via = "new" => last.threw = ErrNewKeyword
  /\ (last.via = "call" /\ last.owner \in CallIds) => last.threw = NoError

\* ------------------------------------------------------------------------
\* C4

Contains(msg, part) == \E i \in 1..Len(msg) : msg[i] = part

\* C4: when the token endpoint answers the POST of a creation call with a
\* non-success status, the call fails with the OAuth error whose message holds
\* the status code, the status text and the body; exactly one POST, to
\* {url}/oauth/token, was made, and no handle exists to produce a model.
C4_OAuthFailureAborts ==
  \A c \in CallIds :
    (kind[c] = "async" /\ resp[c] # NoResponse
       /\ ~(resp[c].status >= 200 /\ resp[c].status <= 299)) =>
      /\ pc[c] = "failed"
      /\ err[c][1] = "Failed to get OAuth access token: "
      /\ Contains(err[c], ToString(resp[c].status))
      /\ Contains(err[c], resp[c].statusText)
      /\ Contains(err[c], resp[c].body)
      /\ Len(posts[c]) = 1
      /\ posts[c][1].method = "POST"
      /\ posts[c][1].url = Val(GivenKey(args[c])).url \o <<"/oauth/token">>
      /\ last.owner # c

\* The endpoint answered 401 to a call given a service key as a JSON string
\* and an empty token.
C4_Witness ==
  /\ args[1].serviceKey = SKString(JSONStringify(K1))
  /\ args[1].token = Some(<<>>)
  /\ resp[1].status = 401
  /\ pc[1] = "failed"

\* ------------------------------------------------------------------------
\* C5

\* C5, as stated: a serviceKey string that is not valid JSON makes
\* createSAPAIProvider fail with the invalid-JSON error, with no POST.
C5_NotJSONFails ==
  \A c \in CallIds :
    (kind[c] = "async" /\ NotJSON(args[c])) =>
      /\ pc[c] = "failed"
      /\ err[c] = ErrInvalidJSON
      /\ posts[c] = <<>>

\* C5, amended: a non-empty serviceKey string that is not valid JSON makes
\* createSAPAIProvider fail with the invalid-JSON error, whatever the other
\* options are: nothing is captured, no handle exists and no POST is made. The
\* empty string is treated as no service key: it never raises that error.
C5_NonEmptyNotJSONFails ==
  \A c \in CallIds :
    (kind[c] = "async" /\ NotJSON(args[c])) =>
      /\ posts[c] = <<>>
      /\ args[c].serviceKey.str # <<>> =>
           /\ pc[c] = "failed"
           /\ err[c] = ErrInvalidJSON
           /\ closure[c] = NoClosure
           /\ last.owner # c
      /\ args[c].serviceKey.str = <<>> =>
           /\ err[c] # ErrInvalidJSON
           /\ pc[c] = "failed" <=> (~Truthy(args[c].token) /\ err[c] = ErrLoadApiKey)

\* A malformed service key string was given together with a token.
C5_Witness ==
  /\ args[1].serviceKey = SKString(MalformedJSON)
  /\ args[1].token = Some(TokA)
  /\ pc[1] = "failed"

\* ------------------------------------------------------------------------
\* C6

\* C6: the default handle exists from the start without having thrown; each
\* invocation sapai(modelId) or sapai.chat(modelId) throws the missing-token
\* error exactly when SAP_AI_TOKEN is unset or empty at that moment, and
\* otherwise returns a model handle carrying the token read at that moment,
\* whatever the earlier invocations did.
C6_DefaultHandleLazy ==
  /\ last = NoCall
  /\ [][(last' # last /\ last'.owner = Sapai /\ last'.via \in {"call", "chat"}) =>
          IF env = None \/ env = Some(<<>>)
          THEN last'.threw = ErrEnvRequired /\ last'.model = NoModel
          ELSE /\ last'.threw = NoError
               /\ last'.model.owner = Sapai
               /\ Headers(last.model)'["Authorization"] = Bearer(Val(env))]_vars

\* sapai.chat failed for an empty SAP_AI_TOKEN although a creation call given
\* the same environment had succeeded before.
C6_Witness ==
  /\ last.owner = Sapai
  /\ last.via = "chat"
  /\ last.threw = ErrEnvRequired
  /\ env = Some(<<>>)
  /\ pc[1] = "ready"

\* ------------------------------------------------------------------------
\* C7

\* B of the claim: the explicit baseURL without its trailing slash, else
\* AI_API_URL + "/v2" of the supplied service key, else the production URL.
ClaimedBase(o) ==
  IF o.baseURL # None
  THEN IF Val(o.baseURL) # <<>> /\ Val(o.baseURL)[Len(Val(o.baseURL))] = "/"
       THEN [i \in 1..(Len(Val(o.baseURL)) - 1) |-> Val(o.baseURL)[i]]
       ELSE Val(o.baseURL)
  ELSE IF GivenKey(o) # None
       THEN Val(GivenKey(o)).AI_API_URL \o <<"/v2">>
       ELSE DefaultBaseURL

\* C7: the completion URL a handle of a creation call hands to the chat model
\* is B + completionPath when a completionPath is supplied and otherwise
\* B + "/inference/deployments/" + D + "/v2/completion", with D the supplied
\* deploymentId or "d65d81e7c077e583".
C7_CompletionURL ==
  [][(last' # last /\ last'.owner \in CallIds /\ last'.threw = NoError) =>
       LET o == args[last'.owner]
           path == options[last'.owner].completionPath
           D == IF o.deploymentId # None THEN Val(o.deploymentId)
                ELSE <<"d65d81e7c077e583">>
       IN  last'.model.baseURL =
             IF path # None
             THEN ClaimedBase(o) \o Val(path)
             ELSE ClaimedBase(o) \o <<"/inference/deployments/">> \o D
                                 \o <<"/v2/completion">>]_vars

\* An explicit baseURL with a trailing slash, a service key, a completionPath
\* and a deploymentId were all supplied.
C7_Witness ==
  /\ args[1].serviceKey = SKObject(K1)
  /\ args[1].baseURL = Some(<<"https://proxy", "/">>)
  /\ args[1].deploymentId = Some(<<"dep1">>)
  /\ ReturnedModelOf(1)
  /\ last.model.baseURL = <<"https://proxy", "/v2/completion">>

\* ------------------------------------------------------------------------
\* C8

\* C8: the settings createModel hands over are the override-wins merge of
\* defaultSettings and the per-call settings, at the top level and inside
\* modelParams separately, and merging the per-call settings once more
\* changes nothing.
C8_SettingsMerge ==
  (last.threw = NoError /\ last.owner \in CallIds) =>
    LET d == options[last.owner].defaultSettings
        dtop == IF d = None THEN <<>> ELSE Val(d).top
        dmp == IF d = None \/ Val(d).mp = None THEN <<>> ELSE Val(Val(d).mp)
        s == last.model.given
        smp == IF s.mp = None THEN <<>> ELSE Val(s.mp)
        r == last.model.settings
    IN  /\ DOMAIN r.top = (DOMAIN dtop) \cup (DOMAIN s.top)
        /\ \A k \in DOMAIN s.top : r.top[k] = s.top[k]
        /\ \A k \in (DOMAIN dtop) \ (DOMAIN s.top) : r.top[k] = dtop[k]
        /\ r.mp # None
        /\ DOMAIN Val(r.mp) = (DOMAIN dmp) \cup (DOMAIN smp)
        /\ \A k \in DOMAIN smp : Val(r.mp)[k] = smp[k]
        /\ \A k \in (DOMAIN dmp) \ (DOMAIN smp) : Val(r.mp)[k] = dmp[k]
        /\ MergeSettings(Some(r), s) = r

\* Defaults with temperature 0.2, maxTokens 50, modelVersion v1 and safePrompt
\* met per-call settings overriding maxTokens and modelVersion only.
C8_Witness ==
  /\ ReturnedModelOf(1)
  /\ options[1].defaultSettings = Some(S3)
  /\ last.model.given = S2
  /\ last.model.settings =
       [top |-> [modelVersion |-> "v2", safePrompt |-> "on"],
        mp |-> Some([temperature |-> "0.2", maxTokens |-> "100"])]

\* ------------------------------------------------------------------------
\* C9

\* C9: the header function of a model handle returns Authorization =
\* "Bearer " + token, Content-Type = application/json and ai-resource-group =
\* the supplied resource group or "default", overlaid by the custom headers:
\* every custom key has its custom value, also when it collides with a
\* generated one.
C9_Headers ==
  (last.threw = NoError /\ last.owner \in CallIds \cup {Sapai}) =>
    LET c == last.owner
        H == Headers(last.model)
        custom == IF c = Sapai THEN <<>> ELSE OrEmpty(options[c].headers)
        tok == IF c = Sapai THEN last.model.authToken
               ELSE IF kind[c] = "async" THEN closure[c].authToken
               ELSE Str(options[c].token)
        rg == IF c = Sapai \/ args[c].resourceGroup = None
              THEN <<"default">>
              ELSE Val(args[c].resourceGroup)
    IN  /\ DOMAIN H = {"Authorization", "Content-Type", "ai-resource-group"}
                        \cup DOMAIN custom
        /\ \A k \in DOMAIN custom : H[k] = custom[k]
        /\ "Authorization" \notin DOMAIN custom => H["Authorization"] = Bearer(tok)
        /\ "Content-Type" \notin DOMAIN custom =>
             H["Content-Type"] = <<"application/json">>
        /\ "ai-resource-group" \notin DOMAIN custom => H["ai-resource-group"] = rg

\* A custom Authorization header collides with the generated one.
C9_Witness ==
  /\ ReturnedModelOf(1)
  /\ args[1].resourceGroup = Some(<<"production">>)
  /\ "Authorization" \in DOMAIN OrEmpty(options[1].headers)
  /\ Headers(last.model)["Authorization"] = <<"Custom abc">>
  /\ Headers(last.model)["ai-resource-group"] = <<"production">>

\* ------------------------------------------------------------------------
\* C10

\* C10: of two creation calls in flight at once, each sends its own POST and
\* ends by its own answer alone: it succeeds exactly on its own success
\* answer, with the token issued to its own service key and the endpoint of
\* that key, and fails exactly on its own failure answer, whatever happened to
\* the other call; the model handles of its handle carry that token and URL.
C10_CallsIndependent ==
  \A c \in CallIds :
    kind[c] = "async" =>
      LET k == Val(GivenKey(args[c]))
      IN  /\ posts[c] = <<OAuthRequest(k)>>
          /\ pc[c] = "awaiting" <=> resp[c] = NoResponse
          /\ pc[c] = "ready" <=> resp[c].status = 200
          /\ pc[c] = "failed" <=> resp[c].status \in {401, 500}
          /\ pc[c] = "failed" =>
               Contains(err[c], ToString(resp[c].status)) /\ closure[c].authToken = <<>>
          /\ pc[c] = "ready" =>
               /\ err[c] = NoError
               /\ closure[c].authToken = IssuedToken(k)
               /\ closure[c].baseURL = k.AI_API_URL \o <<"/v2">>
          /\ ReturnedModelOf(c) =>
               /\ Headers(last.model)["Authorization"] = Bearer(IssuedToken(k))
               /\ SubSeq(last.model.baseURL, 1, 2) = k.AI_API_URL \o <<"/v2">>

\* The first call failed, the second, with another key, succeeded and its
\* handle produced a model handle.
C10_Witness ==
  /\ args[1].serviceKey = SKObject(K1)
  /\ args[2].serviceKey = SKString(JSONStringify(K2))
  /\ pc[1] = "failed"
  /\ pc[2] = "ready"
  /\ ReturnedModelOf(2)

====
